---- MODULE Spec2Model ----
(***************************************************************************)
(* QuantizedTorchEstimatorMixin (concrete/ml/sklearn/base.py): the         *)
(* lifecycle of an estimator that is trained in floating point, quantized  *)
(* after training and compiled to an FHE circuit.                          *)
(*                                                                         *)
(* The adapter's own state is the single field quantized_module_.  The     *)
(* collaborators it calls (the skorch trainer, NumpyModule, the post       *)
(* training quantizer, QuantizedModule.compile / quantize_input and the    *)
(* circuit's run) are modelled by their contracts.                         *)
(***************************************************************************)
EXTENDS Integers, Sequences, FiniteSets, TLC

VARIABLES
    quantized_module_,         \* self.quantized_module_: None or a QuantizedModule
    heap,                      \* the QuantizedArray objects alive, by address
    delegate,                  \* the underlying skorch estimator (super())
    pc,                        \* position inside the running fit()/compile()
    argX,                      \* the X argument of the running call
    numpy_model,               \* fit(): local numpy_model
    quantized_numpy_inputset,  \* compile(): local quantized_numpy_inputset (an address)
    next_id,                   \* identity given to the next QuantizedModule object
    call,                      \* the call in progress or last finished, and its outcome
    calls,                     \* the collaborator calls made by that call, in order
    refit_circuit,             \* the circuit dropped by the last successful refit of a
                               \* Compiled adapter, until the next fit() or compile()
    bench,                     \* the running fit() was called by fit_benchmark()
    fp32_model                 \* the reference model fit_benchmark() returned last

vars == <<quantized_module_, heap, delegate, pc, argX, numpy_model,
          quantized_numpy_inputset, next_id, call, calls, refit_circuit,
          bench, fp32_model>>

-----------------------------------------------------------------------------
(* Bounds *)

MaxRows == 2      \* longest batch given to predict()
MaxFits == 2      \* QuantizedModule objects created in one behaviour

-----------------------------------------------------------------------------
(* Values *)

None == [id |-> 0]

Value == 0..1
Row == [1..2 -> Value]
Addr == 1..2
Weights == 0..1

Batches == UNION {[1..n -> Row] : n \in 1..MaxRows}

\* what a caller may hand to predict(): a 1-D array (one row) or a 2-D batch
PredictInputs == {[ndim |-> 1, v |-> r] : r \in Row}
                 \cup {[ndim |-> 2, v |-> b] : b \in Batches}

\* the data sets handed to fit() and compile(); always 2-D and non-empty
TrainSets == {[ndim |-> 2, v |-> b] :
                 b \in { << <<0, 0>> >>,
                         << <<0, 0>>, <<1, 1>> >>,
                         << <<1, 1>> >> }}

NoInput == [ndim |-> 0, v |-> <<>>]

n_bits_quant == 2

Min2(a, b) == IF a < b THEN a ELSE b
Max2(a, b) == IF a > b THEN a ELSE b

AllValues(b) == {b[i][j] : i \in DOMAIN b, j \in 1..2}
MinOf(S) == CHOOSE x \in S : \A y \in S : x <= y
MaxOf(S) == CHOOSE x \in S : \A y \in S : x >= y

RECURSIVE SumSeq(_)
SumSeq(s) == IF s = <<>> THEN 0 ELSE Head(s) + SumSeq(Tail(s))

-----------------------------------------------------------------------------
(* Collaborators *)

\* the quantization parameters the quantizer derives from the calibration data
Calibrate(n_bits, b) ==
    [n_bits |-> n_bits, zero_point |-> MinOf(AllValues(b)), top |-> MaxOf(AllValues(b))]

\* affine quantization of one value under fixed parameters, clipped to n_bits
QuantizeValue(params, x) ==
    Max2(0, Min2(Min2(x, params.top) - params.zero_point, 2 ^ params.n_bits - 1))

QuantizeRow(params, row) == [j \in DOMAIN row |-> QuantizeValue(params, row[j])]

QuantizeBatch(params, b) == [i \in DOMAIN b |-> QuantizeRow(params, b[i])]

\* a QuantizedArray: parameters, the raw values it holds, and their quantization
QuantizedArray(params, b) ==
    [params |-> params, values |-> b, qvalues |-> QuantizeBatch(params, b)]

\* QuantizedArray.update_values: new contents, same parameters
update_values(arr, b) == QuantizedArray(arr.params, b)

\* the weights the trainer reaches on a data set
Train(b) == MaxOf(AllValues(b))

\* the integer computation of a module / circuit on one quantized row: class scores
Forward(weights, qrow) == <<weights, SumSeq(qrow)>>

\* the floating point network on one raw row: class scores
ForwardFloat(weights, row) == <<weights, SumSeq(row)>>

\* numpy argmax of a vector: the first index (0-based) holding the maximum
ArgMax(v) ==
    (CHOOSE i \in DOMAIN v :
        /\ \A k \in DOMAIN v : v[k] <= v[i]
        /\ \A k \in DOMAIN v : k < i => v[k] < v[i]) - 1

\* QuantizedModule.quantize_input(x): x in the integer domain of module m
quantize_input(m, x) == [params |-> m.params, qvalues |-> QuantizeRow(m.params, x)]

\* forward_fhe.run(q_x): the scores the circuit gives
run(circuit, q_x) == Forward(circuit.weights, q_x.qvalues)

\* the circuit the compiler builds for module m from a quantized input set
CompileCircuit(m, inputset) ==
    [id |-> m.id, params |-> inputset.params, weights |-> m.weights]

\* QuantizedModule.compile succeeded: the circuit is attached, nothing else changes
module_compile(m, inputset) ==
    [m EXCEPT !.is_compiled = TRUE, !.forward_fhe = CompileCircuit(m, inputset)]

-----------------------------------------------------------------------------
(* Heap of QuantizedArray objects *)

Alloc(h) == CHOOSE a \in Addr : h[a] = None /\ \A b \in Addr : h[b] = None => a <= b

Free(h, a) == [h EXCEPT ![a] = None]

\* the heap once the adapter's field goes from module old to module new:
\* the input set of a module no longer referenced is collected
Collect(h, old, new) ==
    IF old # None /\ (new = None \/ new.id # old.id)
    THEN Free(h, old.q_inputs0)
    ELSE h

\* the lifecycle state read off the field, as the code does
Lifecycle(m) ==
    IF m = None THEN "Untrained"
    ELSE IF m.is_compiled THEN "Compiled" ELSE "Calibrated"

State == Lifecycle(quantized_module_)

\* the stored quantization input set of module m (q_inputs[0])
q_inputs0(m) == IF m = None THEN None ELSE heap[m.q_inputs0]

NewCall(op, X, fhe) ==
    [op |-> op, X |-> X, fhe |-> fhe, status |-> "running", y_pred |-> <<>>,
     pre_mod |-> quantized_module_, pre_arr |-> q_inputs0(quantized_module_)]

-----------------------------------------------------------------------------

Init ==
    /\ quantized_module_ = None
    /\ heap = [a \in Addr |-> None]
    /\ delegate = [initialized |-> FALSE, weights |-> 0]
    /\ pc = "idle"
    /\ argX = NoInput
    /\ numpy_model = None
    /\ quantized_numpy_inputset = 0
    /\ next_id = 1
    /\ call = [op |-> "init", X |-> NoInput, fhe |-> FALSE, status |-> "ok",
               y_pred |-> <<>>, pre_mod |-> None, pre_arr |-> None]
    /\ calls = <<>>
    /\ refit_circuit = None
    /\ bench = FALSE
    /\ fp32_model = None

-----------------------------------------------------------------------------
(* fit(X, y) *)

\* line 131: what fit() leaves in the field before it trains
fit_reset_keep == quantized_module_
fit_reset == None

\* NumpyModule(self.base_module_to_compile, torch.tensor(X[0, ::]))
NumpyModule(d, sample) == [id |-> 1, weights |-> d.weights, sample |-> sample]

\* PostTrainingAffineQuantization(n_bits, numpy_model).quantize_module(X):
\* a new module, calibrated on X, not compiled, its input set stored at addr
quantize_module(n_bits, nm, X, id, addr) ==
    [id |-> id, params |-> Calibrate(n_bits, X.v), weights |-> nm.weights,
     q_inputs0 |-> addr, is_compiled |-> FALSE, forward_fhe |-> None]

\* line 144: what fit() stores in the field once quantization returned new
fit_store_keep_circuit(new) ==
    IF call.pre_mod = None THEN new
    ELSE [new EXCEPT !.is_compiled = call.pre_mod.is_compiled,
                     !.forward_fhe = call.pre_mod.forward_fhe]
fit_store(new) == new

\* fit() entered with X; from_benchmark tells whether fit_benchmark() made the call
FitEnter(X, from_benchmark) ==
    /\ pc = "idle"
    /\ bench' = from_benchmark
    /\ UNCHANGED fp32_model
    /\ next_id <= MaxFits
    /\ quantized_module_' = fit_reset
    /\ heap' = Collect(heap, quantized_module_, fit_reset)
    /\ pc' = "fit_train"
    /\ argX' = X
    /\ call' = NewCall("fit", X, FALSE)
    /\ calls' = <<>>
    /\ refit_circuit' = None
    /\ UNCHANGED <<delegate, numpy_model, quantized_numpy_inputset, next_id>>

\* a caller calls fit(X, y)
FitBegin(X) == FitEnter(X, FALSE)

\* line 134, super().fit(X, y) returns
FitTrainOk ==
    /\ UNCHANGED <<bench, fp32_model>>
    /\ pc = "fit_train"
    /\ delegate' = [initialized |-> TRUE, weights |-> Train(argX.v)]
    /\ calls' = Append(calls, [fn |-> "super_fit"])
    /\ pc' = "fit_trace"
    /\ UNCHANGED <<quantized_module_, heap, argX, numpy_model,
                   quantized_numpy_inputset, next_id, call, refit_circuit>>

\* line 134, super().fit(X, y) raises: the network is left as far as training got
FitTrainRaise ==
    /\ bench' = FALSE
    /\ UNCHANGED fp32_model
    /\ pc = "fit_train"
    /\ \E w \in Weights : delegate' = [initialized |-> TRUE, weights |-> w]
    /\ calls' = Append(calls, [fn |-> "super_fit"])
    /\ call' = [call EXCEPT !.status = "TrainError"]
    /\ pc' = "idle"
    /\ UNCHANGED <<quantized_module_, heap, numpy_model,
                   quantized_numpy_inputset, next_id, refit_circuit>>
    /\ argX' = NoInput

\* line 137, the tracer returns
FitTraceOk ==
    /\ UNCHANGED <<bench, fp32_model>>
    /\ pc = "fit_trace"
    /\ numpy_model' = NumpyModule(delegate, argX.v[1])
    /\ calls' = Append(calls, [fn |-> "NumpyModule"])
    /\ pc' = "fit_quantize"
    /\ UNCHANGED <<quantized_module_, heap, delegate, argX,
                   quantized_numpy_inputset, next_id, call, refit_circuit>>

\* line 137, the tracer raises
FitTraceRaise ==
    /\ bench' = FALSE
    /\ UNCHANGED fp32_model
    /\ pc = "fit_trace"
    /\ calls' = Append(calls, [fn |-> "NumpyModule"])
    /\ call' = [call EXCEPT !.status = "TraceError"]
    /\ pc' = "idle"
    /\ UNCHANGED <<quantized_module_, heap, delegate, numpy_model,
                   quantized_numpy_inputset, next_id, refit_circuit>>
    /\ argX' = NoInput

\* lines 140-145, the quantizer returns and fit() stores the module and returns
FitQuantizeOk ==
    /\ pc = "fit_quantize"
    /\ LET addr == Alloc(heap)
           new == fit_store(quantize_module(n_bits_quant, numpy_model, argX,
                                            next_id, addr))
           h1 == [heap EXCEPT ![addr] = QuantizedArray(new.params, argX.v)]
       IN /\ quantized_module_' = new
          /\ heap' = Collect(h1, quantized_module_, new)
          /\ refit_circuit' = IF call.pre_mod # None /\ call.pre_mod.is_compiled
                              THEN call.pre_mod.forward_fhe ELSE None
    /\ next_id' = next_id + 1
    /\ numpy_model' = None
    /\ calls' = Append(calls, [fn |-> "quantize_module"])
    /\ call' = [call EXCEPT !.status = "ok"]
    /\ pc' = IF bench THEN "bench_clone" ELSE "idle"
    /\ UNCHANGED <<delegate, quantized_numpy_inputset, bench, fp32_model>>
    /\ argX' = NoInput

\* line 144, the quantizer raises
FitQuantizeRaise ==
    /\ bench' = FALSE
    /\ UNCHANGED fp32_model
    /\ pc = "fit_quantize"
    /\ numpy_model' = None
    /\ calls' = Append(calls, [fn |-> "quantize_module"])
    /\ call' = [call EXCEPT !.status = "QuantError"]
    /\ pc' = "idle"
    /\ UNCHANGED <<quantized_module_, heap, delegate, quantized_numpy_inputset, next_id, refit_circuit>>
    /\ argX' = NoInput

-----------------------------------------------------------------------------
(* compile(X, ...) *)

\* line 83: the lifecycle check of compile(); TRUE raises
compile_check_skipped == FALSE
compile_check == quantized_module_ = None

\* line 90: where the input set compile() works on lives
deepcopy_aliased == quantized_module_.q_inputs0
deepcopy == Alloc(heap)

\* the local copy is collected when compile() ends, unless the module holds it
Release(h, a) ==
    IF quantized_module_ # None /\ quantized_module_.q_inputs0 = a THEN h ELSE Free(h, a)

CompileBegin(X) ==
    /\ UNCHANGED <<bench, fp32_model>>
    /\ pc = "idle"
    /\ argX' = IF compile_check \/ quantized_module_ = None THEN NoInput ELSE X
    /\ calls' = IF compile_check \/ quantized_module_ = None
                THEN <<>> ELSE <<[fn |-> "deepcopy"]>>
    /\ IF compile_check
       THEN /\ call' = [NewCall("compile", X, FALSE) EXCEPT !.status = "NotCalibrated"]
            /\ UNCHANGED <<heap, quantized_numpy_inputset, pc>>
       ELSE IF quantized_module_ = None
       THEN \* None has no attribute q_inputs
            /\ call' = [NewCall("compile", X, FALSE) EXCEPT !.status = "AttributeError"]
            /\ UNCHANGED <<heap, quantized_numpy_inputset, pc>>
       ELSE /\ call' = NewCall("compile", X, FALSE)
            /\ quantized_numpy_inputset' = deepcopy
            /\ heap' = [heap EXCEPT ![deepcopy] = heap[quantized_module_.q_inputs0]]
            /\ pc' = "compile_update"
    /\ UNCHANGED <<quantized_module_, delegate, numpy_model, next_id, refit_circuit>>

\* line 91: the compile-time data is quantized with the parameters arr carries
compile_recalibrate(arr, X) == QuantizedArray(Calibrate(n_bits_quant, X.v), X.v)
compile_requantize(arr, X) == update_values(arr, X.v)

\* line 91
CompileUpdate ==
    /\ UNCHANGED <<bench, fp32_model>>
    /\ pc = "compile_update"
    /\ heap' = [heap EXCEPT ![quantized_numpy_inputset] =
                    compile_requantize(heap[quantized_numpy_inputset], argX)]
    /\ calls' = Append(calls, [fn |-> "update_values"])
    /\ pc' = "compile_backend"
    /\ UNCHANGED <<quantized_module_, delegate, argX, numpy_model,
                   quantized_numpy_inputset, next_id, call, refit_circuit>>

\* lines 94-100, the compiler returns a circuit
CompileBackendOk ==
    /\ UNCHANGED <<bench, fp32_model>>
    /\ pc = "compile_backend"
    /\ quantized_module_' = module_compile(quantized_module_,
                                           heap[quantized_numpy_inputset])
    /\ heap' = Release(heap, quantized_numpy_inputset)
    /\ quantized_numpy_inputset' = 0
    /\ calls' = Append(calls, [fn |-> "module_compile"])
    /\ call' = [call EXCEPT !.status = "ok"]
    /\ refit_circuit' = None
    /\ pc' = "idle"
    /\ UNCHANGED <<delegate, numpy_model, next_id>>
    /\ argX' = NoInput

\* lines 94-100, the compiler raises
CompileBackendRaise ==
    /\ UNCHANGED <<bench, fp32_model>>
    /\ pc = "compile_backend"
    /\ heap' = Release(heap, quantized_numpy_inputset)
    /\ quantized_numpy_inputset' = 0
    /\ calls' = Append(calls, [fn |-> "module_compile"])
    /\ call' = [call EXCEPT !.status = "CompilerError"]
    /\ pc' = "idle"
    /\ UNCHANGED <<quantized_module_, delegate, numpy_model, next_id,
                   refit_circuit>>
    /\ argX' = NoInput

-----------------------------------------------------------------------------
(* predict(X, execute_in_fhe) *)

\* lines 167-175: the lifecycle checks of the encrypted path, in the code's order
predict_check_uncompiled_first ==
    IF quantized_module_ = None \/ ~quantized_module_.is_compiled THEN "NotCompiled"
    ELSE "ok"
predict_check_calibrated_only ==
    IF quantized_module_ = None THEN "NotCalibrated" ELSE "ok"
predict_check ==
    IF quantized_module_ = None THEN "NotCalibrated"
    ELSE IF ~quantized_module_.is_compiled THEN "NotCompiled"
    ELSE "ok"

\* lines 178-179: a 1-D input becomes a batch of one row
reshape_column(X) == IF X.ndim = 1 THEN [i \in DOMAIN X.v |-> <<X.v[i]>>] ELSE X.v
reshape(X) == IF X.ndim = 1 THEN <<X.v>> ELSE X.v

\* lines 182-183 for the row at position idx:
\* the class written to y_pred[idx] and the collaborator calls made
predict_row(rows, idx) ==
    LET q_x == quantize_input(quantized_module_, rows[idx])
        circuit == quantized_module_.forward_fhe
    IN [y |-> ArgMax(run(circuit, q_x)),
        calls |-> << [fn |-> "quantize_input", row |-> idx],
                     [fn |-> "run", row |-> idx, circuit |-> circuit,
                      q_params |-> q_x.params, q_x |-> q_x.qvalues] >>]

\* lines 181-183: the loop over the rows, from position idx on
RECURSIVE predict_loop(_, _, _, _)
predict_loop(rows, idx, y_pred, log) ==
    IF idx > Len(rows) THEN [y_pred |-> y_pred, calls |-> log]
    ELSE LET r == predict_row(rows, idx)
         IN predict_loop(rows, idx + 1, [y_pred EXCEPT ![idx] = r.y], log \o r.calls)

\* lines 180-184: y_pred starts as zeros and is filled row by row
predict_fhe_first_row(rows) ==
    LET r == predict_row(rows, 1)
    IN [y_pred |-> [i \in 1..Len(rows) |-> r.y],
        calls |-> r.calls]
predict_fhe_rerun(rows) ==
    LET r == predict_loop(rows, 1, [i \in 1..Len(rows) |-> 0], <<>>)
    IN [y_pred |-> r.y_pred, calls |-> r.calls \o r.calls]
predict_fhe(rows) == predict_loop(rows, 1, [i \in 1..Len(rows) |-> 0], <<>>)

\* the adapter's inference hook, reached through the delegate's predict
infer(row) ==
    IF quantized_module_ = None
    THEN ArgMax(ForwardFloat(delegate.weights, row))
    ELSE ArgMax(Forward(quantized_module_.weights,
                        QuantizeRow(quantized_module_.params, row)))

\* line 188: super().predict(X)
super_predict(X) ==
    IF ~delegate.initialized
    THEN [status |-> "NotInitialized", y_pred |-> <<>>,
          calls |-> <<[fn |-> "super_predict"]>>]
    ELSE [status |-> "ok", y_pred |-> [i \in DOMAIN reshape(X) |-> infer(reshape(X)[i])],
          calls |-> <<[fn |-> "super_predict"]>>]

\* lines 166-188: outcome, result and collaborator calls of predict on the current state
predict_checks_always(X, execute_in_fhe) ==
    IF predict_check # "ok"
    THEN [status |-> predict_check, y_pred |-> <<>>, calls |-> <<>>]
    ELSE IF execute_in_fhe
    THEN LET r == predict_fhe(reshape(X))
         IN [status |-> "ok", y_pred |-> r.y_pred, calls |-> r.calls]
    ELSE super_predict(X)
predict(X, execute_in_fhe) ==
    IF execute_in_fhe
    THEN IF predict_check # "ok"
         THEN [status |-> predict_check, y_pred |-> <<>>, calls |-> <<>>]
         ELSE IF quantized_module_ = None \/ quantized_module_.forward_fhe = None
         THEN \* None has no attribute is_compiled / run
              [status |-> "AttributeError", y_pred |-> <<>>, calls |-> <<>>]
         ELSE LET r == predict_fhe(reshape(X))
              IN [status |-> "ok", y_pred |-> r.y_pred, calls |-> r.calls]
    ELSE super_predict(X)

Predict_invalidating(X, execute_in_fhe) ==
    /\ UNCHANGED <<bench, fp32_model>>
    /\ pc = "idle"
    /\ LET r == predict(X, execute_in_fhe)
           m == IF r.status = "NotCompiled" THEN None ELSE quantized_module_
       IN /\ call' = [NewCall("predict", X, execute_in_fhe) EXCEPT
                         !.status = r.status, !.y_pred = r.y_pred]
          /\ calls' = r.calls
          /\ quantized_module_' = m
          /\ heap' = Collect(heap, quantized_module_, m)
    /\ UNCHANGED <<delegate, pc, argX, numpy_model,
                   quantized_numpy_inputset, next_id, refit_circuit>>
Predict(X, execute_in_fhe) ==
    /\ UNCHANGED <<bench, fp32_model>>
    /\ pc = "idle"
    /\ LET r == predict(X, execute_in_fhe)
       IN /\ call' = [NewCall("predict", X, execute_in_fhe) EXCEPT
                         !.status = r.status, !.y_pred = r.y_pred]
          /\ calls' = r.calls
    /\ UNCHANGED <<quantized_module_, heap, delegate, pc, argX, numpy_model,
                   quantized_numpy_inputset, next_id, refit_circuit>>

-----------------------------------------------------------------------------
(* fit_benchmark(X, y) *)

\* get_params(): the training parameters of the estimator, the module's constructor
\* among them
get_params == [module |-> "constructor", lr |-> 1, max_epochs |-> 1]

\* line 48
get_params_for_benchmark == get_params

\* lines 226-239: every parameter deep-copied, the "module" key removed
new_object_params ==
    LET copied == get_params_for_benchmark
    IN [k \in DOMAIN copied \ {"module"} |-> copied[k]]

\* line 232: the network handed to the reference estimator
module_copy_aliased == [shared |-> TRUE, weights |-> delegate.weights]
module_copy == [shared |-> FALSE, weights |-> delegate.weights]

\* lines 240-244: klass(module_copy, **new_object_params), then initialize()
klass(net, params) ==
    [id |-> 1, shared |-> net.shared, weights |-> net.weights, params |-> params,
     initialized |-> TRUE, created_weights |-> net.weights]

\* the weights the reference model computes with: its own network, or the
\* adapter's when the two are one object
RefWeights(f) == IF f.shared THEN delegate.weights ELSE f.weights

\* predict() of the reference model on one row
fp32_predict(f, row) ==
    IF f.initialized THEN ArgMax(ForwardFloat(RefWeights(f), row)) ELSE -1

\* line 216: fit_benchmark() calls self.fit(X, y)
FitBenchmarkBegin(X) == FitEnter(X, TRUE)

\* lines 226-246, reached when self.fit returned
FitBenchmarkClone ==
    /\ pc = "bench_clone"
    /\ fp32_model' = klass(module_copy, new_object_params)
    /\ bench' = FALSE
    /\ call' = [call EXCEPT !.op = "fit_benchmark"]
    /\ calls' = calls \o <<[fn |-> "get_params"], [fn |-> "deepcopy_module"],
                            [fn |-> "klass"], [fn |-> "initialize"]>>
    /\ pc' = "idle"
    /\ UNCHANGED <<quantized_module_, heap, delegate, numpy_model,
                   quantized_numpy_inputset, next_id, refit_circuit>>
    /\ argX' = NoInput

-----------------------------------------------------------------------------

Next ==
    \/ \E X \in TrainSets : FitBegin(X)
    \/ FitTrainOk
    \/ FitTrainRaise
    \/ FitTraceOk
    \/ FitTraceRaise
    \/ FitQuantizeOk
    \/ FitQuantizeRaise
    \/ \E X \in TrainSets : CompileBegin(X)
    \/ CompileUpdate
    \/ CompileBackendOk
    \/ CompileBackendRaise
    \/ \E X \in PredictInputs, e \in BOOLEAN : Predict(X, e)
    \/ \E X \in TrainSets : FitBenchmarkBegin(X)
    \/ FitBenchmarkClone

Spec == Init /\ [][Next]_vars

-----------------------------------------------------------------------------
(* Type and structure *)

TypeOK ==
    /\ pc \in {"idle", "fit_train", "fit_trace", "fit_quantize",
                "compile_update", "compile_backend", "bench_clone"}
    /\ bench \in BOOLEAN
    /\ bench => pc \in {"fit_train", "fit_trace", "fit_quantize", "bench_clone"}
    /\ next_id \in 1..(MaxFits + 1)
    /\ quantized_module_ # None =>
          /\ quantized_module_.id \in 1..MaxFits
          /\ heap[quantized_module_.q_inputs0] # None

-----------------------------------------------------------------------------
(* Properties *)

PreState == Lifecycle(call.pre_mod)

\* the finished call is an encrypted predict()
EncryptedPredictDone == pc = "idle" /\ call.op = "predict" /\ call.fhe

Ran(log) == \E i \in DOMAIN log : log[i].fn = "run"

DelegateErrors == {"TrainError", "TraceError", "QuantError", "CompilerError"}

\* C1: once a successful fit() has replaced the module of a Compiled adapter, and
\* until the next fit() or successful compile(), the adapter is Calibrated and holds
\* no circuit, and every encrypted predict() fails with the not-compiled error
\* without executing any circuit, the dropped one included.
C1_RefitNeedsRecompile ==
    (pc = "idle" /\ refit_circuit # None) =>
        /\ State = "Calibrated"
        /\ quantized_module_.forward_fhe = None
        /\ \A X \in PredictInputs :
              /\ predict(X, TRUE).status = "NotCompiled"
              /\ ~Ran(predict(X, TRUE).calls)
        /\ EncryptedPredictDone => (call.status = "NotCompiled" /\ ~Ran(calls))

C1_Witness ==
    /\ refit_circuit # None
    /\ EncryptedPredictDone
    /\ call.status = "NotCompiled"
    /\ quantized_module_.id > refit_circuit.id

\* C2: an encrypted predict() made in the Calibrated state fails with the
\* not-compiled error, whatever its input, and runs no circuit.
C2_CalibratedPredictNotCompiled ==
    /\ (EncryptedPredictDone /\ PreState = "Calibrated") =>
          (call.status = "NotCompiled" /\ calls = <<>> /\ call.y_pred = <<>>)
    /\ (pc = "idle" /\ State = "Calibrated") =>
          \A X \in PredictInputs : predict(X, TRUE).status = "NotCompiled"

C2_Witness ==
    /\ EncryptedPredictDone
    /\ PreState = "Calibrated"
    /\ call.status = "NotCompiled"
    /\ call.X.ndim = 2 /\ Len(call.X.v) = MaxRows

\* C3: an encrypted predict() made in the Untrained state fails with the
\* not-calibrated error, whatever its input, and never with the not-compiled one.
C3_UntrainedPredictNotCalibrated ==
    /\ (EncryptedPredictDone /\ PreState = "Untrained") =>
          (call.status = "NotCalibrated" /\ calls = <<>>)
    /\ (pc = "idle" /\ State = "Untrained") =>
          \A X \in PredictInputs : predict(X, TRUE).status = "NotCalibrated"

C3_Witness ==
    /\ EncryptedPredictDone
    /\ next_id = 1
    /\ ~delegate.initialized
    /\ call.status = "NotCalibrated"

\* C4: compile() in the Untrained state fails with the not-calibrated error having
\* called no collaborator and leaves the adapter Untrained; in the Calibrated and
\* the Compiled state the check passes and the compiler is called.
C4_CompileLifecycleCheck ==
    (pc = "idle" /\ call.op = "compile") =>
        /\ PreState = "Untrained" =>
              /\ call.status = "NotCalibrated"
              /\ calls = <<>>
              /\ State = "Untrained"
              /\ \A a \in Addr : heap[a] = None
        /\ PreState # "Untrained" =>
              /\ call.status \in {"ok", "CompilerError"}
              /\ calls = <<[fn |-> "deepcopy"], [fn |-> "update_values"],
                           [fn |-> "module_compile"]>>

C4_Witness ==
    /\ pc = "idle" /\ call.op = "compile"
    /\ PreState = "Untrained"
    /\ call.status = "NotCalibrated"
    /\ delegate.initialized

\* the rows of batch b taken in the order p
Permute(b, p) == [i \in DOMAIN b |-> b[p[i]]]

\* C5: a successful encrypted predict() on N rows returns N classes, the i-th being
\* the arg-max of the circuit on the quantization of row i, and permuting the rows
\* permutes the result the same way.
C5_PredictRowwise ==
    (EncryptedPredictDone /\ call.status = "ok") =>
        LET rows == reshape(call.X)
            m == quantized_module_
        IN /\ Len(call.y_pred) = Len(rows)
           /\ \A i \in DOMAIN rows :
                 call.y_pred[i] = ArgMax(run(m.forward_fhe, quantize_input(m, rows[i])))
           /\ \A p \in Permutations(DOMAIN rows) :
                 predict([ndim |-> 2, v |-> Permute(rows, p)], TRUE).y_pred
                     = Permute(call.y_pred, p)

C5_Witness ==
    /\ EncryptedPredictDone /\ call.status = "ok"
    /\ PreState = "Compiled"
    /\ Len(call.y_pred) = MaxRows
    /\ call.y_pred[1] = 1 /\ call.y_pred[MaxRows] = 0

\* C6: when the delegate's training raises, fit() ends with that error, the adapter
\* holds no module whatever it held before, and training was called once.
C6_TrainFailureLeavesUntrained ==
    (pc = "idle" /\ call.op = "fit" /\ call.status = "TrainError") =>
        /\ quantized_module_ = None
        /\ State = "Untrained"
        /\ calls = <<[fn |-> "super_fit"]>>

C6_Witness ==
    /\ pc = "idle" /\ call.op = "fit" /\ call.status = "TrainError"
    /\ PreState = "Compiled"
    /\ quantized_module_ = None

\* C7 as stated: after a failed collaborator call of fit() or compile() the adapter
\* holds the module and the circuit it held before the call, unchanged.
C7_Original ==
    (pc = "idle" /\ call.op \in {"fit", "compile"} /\ call.status \in DelegateErrors) =>
        /\ quantized_module_ = call.pre_mod
        /\ q_inputs0(quantized_module_) = call.pre_arr

\* C7 amended: after a failed collaborator call the adapter is in the state it was
\* in when that collaborator was called: compile() leaves the module and circuit held
\* before the call, unchanged; fit(), which dropped the module before training,
\* leaves the adapter Untrained.
C7_FailureLeavesStateAtDelegation ==
    (pc = "idle" /\ call.status \in DelegateErrors) =>
        /\ call.op = "compile" =>
              /\ quantized_module_ = call.pre_mod
              /\ q_inputs0(quantized_module_) = call.pre_arr
        /\ call.op = "fit" => quantized_module_ = None

C7_Witness ==
    /\ pc = "idle" /\ call.op = "fit" /\ call.status = "QuantError"
    /\ PreState = "Calibrated"
    /\ quantized_module_ = None

\* C8: when the compiler raises in a compile() made in the Calibrated state, the call
\* ends with that error, the adapter is still Calibrated and an encrypted predict()
\* fails with the not-compiled error.
C8_CompilerFailureStaysCalibrated ==
    (pc = "idle" /\ call.op = "compile" /\ PreState = "Calibrated"
        /\ call.status # "ok") =>
        /\ call.status = "CompilerError"
        /\ State = "Calibrated"
        /\ quantized_module_.forward_fhe = None
        /\ \A X \in PredictInputs : predict(X, TRUE).status = "NotCompiled"

C8_Witness ==
    /\ pc = "idle" /\ call.op = "compile" /\ call.status = "CompilerError"
    /\ PreState = "Calibrated"
    /\ State = "Calibrated"

\* C9: compile() changes only the circuit of the module: at every step the field
\* holds the same module object with the same parameters and the same stored input
\* set, and on success the attached circuit is built under the fit-time parameters.
C9_CompileOnlyAttachesCircuit ==
    (call.op = "compile" /\ call.status \in {"running", "ok"}) =>
        /\ quantized_module_.id = call.pre_mod.id
        /\ quantized_module_.params = call.pre_mod.params
        /\ quantized_module_.weights = call.pre_mod.weights
        /\ quantized_module_.q_inputs0 = call.pre_mod.q_inputs0
        /\ q_inputs0(quantized_module_) = call.pre_arr
        /\ call.status = "running" => quantized_module_ = call.pre_mod
        /\ pc = "compile_backend" =>
              /\ heap[quantized_numpy_inputset].params = call.pre_arr.params
              /\ heap[quantized_numpy_inputset].values = argX.v
        /\ call.status = "ok" =>
              /\ quantized_module_.is_compiled
              /\ quantized_module_.forward_fhe # None
              /\ quantized_module_.forward_fhe.params = call.pre_mod.params

C9_Witness ==
    /\ pc = "idle" /\ call.op = "compile" /\ call.status = "ok"
    /\ call.X.v # call.pre_arr.values
    /\ q_inputs0(quantized_module_) = call.pre_arr

\* C10: a circuit is held only by the module it was built for, and every circuit
\* execution of an encrypted predict() runs that module's circuit on an input
\* quantized with that module's parameters.
C10_CircuitMatchesModule ==
    /\ (quantized_module_ # None /\ quantized_module_.forward_fhe # None) =>
          /\ quantized_module_.is_compiled
          /\ quantized_module_.forward_fhe.id = quantized_module_.id
          /\ quantized_module_.forward_fhe.params = quantized_module_.params
    /\ (quantized_module_ # None /\ quantized_module_.is_compiled) =>
          quantized_module_.forward_fhe # None
    /\ EncryptedPredictDone =>
          \A i \in DOMAIN calls :
              calls[i].fn = "run" =>
                  /\ calls[i].circuit.id = quantized_module_.id
                  /\ calls[i].circuit.params = calls[i].q_params
                  /\ calls[i].q_params = quantized_module_.params

C10_Witness ==
    /\ EncryptedPredictDone /\ call.status = "ok" /\ Ran(calls)
    /\ quantized_module_.id > 1
    /\ quantized_module_.params.zero_point = 1

\* every set of quantization parameters reachable from module m: its own, those of
\* its stored input set and those of its circuit
HeldParams(m) ==
    {m.params, heap[m.q_inputs0].params}
        \cup (IF m.forward_fhe = None THEN {} ELSE {m.forward_fhe.params})

\* C11: the parameters of the module held are those fit() derived from its data;
\* compile() and predict() leave the same module with the same parameters, whatever
\* data they get, and work under those parameters; other parameters appear only
\* with the new module of a successful fit().
C11_ParamsFixedAtFit ==
    quantized_module_ # None =>
        /\ call.op \in {"compile", "predict"} =>
              /\ quantized_module_.id = call.pre_mod.id
              /\ HeldParams(quantized_module_) = {call.pre_mod.params}
              /\ pc = "compile_backend" =>
                    heap[quantized_numpy_inputset].params = call.pre_mod.params
        /\ call.op \in {"fit", "fit_benchmark"} =>
              /\ call.status = "ok"
              /\ call.pre_mod # None => quantized_module_.id # call.pre_mod.id
              /\ HeldParams(quantized_module_) = {Calibrate(n_bits_quant, call.X.v)}

C11_Witness ==
    /\ pc = "idle" /\ call.op = "compile" /\ call.status = "ok"
    /\ Calibrate(n_bits_quant, call.X.v) # quantized_module_.params
    /\ quantized_module_.forward_fhe.params = quantized_module_.params

\* the finished call is a predict() in the clear
ClearPredictDone == pc = "idle" /\ call.op = "predict" /\ ~call.fhe

\* C12: a predict() in the clear made in the Calibrated or the Compiled state
\* succeeds with one class per row, through the delegate alone: no lifecycle
\* error and no circuit execution.
C12_ClearPredictSucceeds ==
    (ClearPredictDone /\ PreState # "Untrained") =>
        /\ call.status = "ok"
        /\ calls = <<[fn |-> "super_predict"]>>
        /\ Len(call.y_pred) = Len(reshape(call.X))

C12_Witness ==
    /\ ClearPredictDone
    /\ PreState = "Calibrated"
    /\ call.status = "ok"
    /\ Len(call.y_pred) = MaxRows

\* the module read from the field is whole: its input set exists and carries its
\* parameters
Complete(m) == heap[m.q_inputs0] # None /\ heap[m.q_inputs0].params = m.params

\* C13 as stated: a reader sees no half-built module, and whenever fit() or
\* compile() changes the module held, the field holds another object (a full
\* swap, never a change in place).
C13_Original ==
    /\ quantized_module_ # None => Complete(quantized_module_)
    /\ (call.op \in {"fit", "compile"} /\ quantized_module_ # None
          /\ call.pre_mod # None /\ quantized_module_ # call.pre_mod) =>
          quantized_module_.id # call.pre_mod.id

\* C13 amended: at every step of fit() a reader finds no module or a whole one: the
\* old module goes together with its circuit in one assignment, nothing is held
\* while fit() works, and the new module arrives whole and uncompiled in one
\* assignment.  compile() never assigns the field: the module held stays the same
\* object, equal to the one held before until the compiler attaches the circuit
\* to it in place.
C13_FitSwapsCompileAttaches ==
    /\ quantized_module_ # None => Complete(quantized_module_)
    /\ call.op = "fit" =>
          \/ quantized_module_ = None
          \/ /\ call.status = "ok"
             /\ call.pre_mod # None => quantized_module_.id # call.pre_mod.id
             /\ ~quantized_module_.is_compiled
             /\ quantized_module_.forward_fhe = None
    /\ (call.op = "compile" /\ call.pre_mod # None) =>
          /\ quantized_module_ # None
          /\ quantized_module_.id = call.pre_mod.id
          /\ call.status # "ok" => quantized_module_ = call.pre_mod
          /\ call.status = "ok" =>
                quantized_module_ = module_compile(call.pre_mod,
                                                   [params |-> call.pre_mod.params])

C13_Witness ==
    /\ pc = "fit_trace"
    /\ PreState = "Compiled"
    /\ quantized_module_ = None
    /\ \A a \in Addr : heap[a] = None

\* C14: the reference model of fit_benchmark() is trained, holds the adapter's
\* parameters without the module constructor, and computes with the network it was
\* created with whatever fit() and compile() later do to the adapter;
\* fit_benchmark() returns with the adapter Calibrated.
C14_ReferenceModelIndependent ==
    /\ fp32_model # None =>
          /\ fp32_model.initialized
          /\ RefWeights(fp32_model) = fp32_model.created_weights
          /\ \A row \in Row :
                fp32_predict(fp32_model, row)
                    = ArgMax(ForwardFloat(fp32_model.created_weights, row))
          /\ fp32_model.params = [k \in DOMAIN get_params \ {"module"} |-> get_params[k]]
    /\ (pc = "idle" /\ call.op = "fit_benchmark") =>
          /\ call.status = "ok"
          /\ State = "Calibrated"
          /\ fp32_model # None
          /\ fp32_model.created_weights = quantized_module_.weights

C14_Witness ==
    /\ fp32_model # None
    /\ pc = "idle" /\ call.op = "compile" /\ call.status = "ok"
    /\ delegate.weights # fp32_model.created_weights

FitWindow == pc \in {"fit_train", "fit_trace", "fit_quantize"}

\* C15: from the start of the delegate's training to the end of quantization the
\* adapter holds no module, and a module is held after fit() only once training,
\* tracing and quantization have all returned.
C15_NoModuleWhileFitting ==
    /\ FitWindow => quantized_module_ = None
    /\ (call.op = "fit" /\ quantized_module_ # None) =>
          /\ pc \in {"idle", "bench_clone"}
          /\ call.status = "ok"
          /\ calls = <<[fn |-> "super_fit"], [fn |-> "NumpyModule"],
                       [fn |-> "quantize_module"]>>

C15_Witness ==
    /\ pc = "fit_quantize"
    /\ PreState = "Calibrated"
    /\ quantized_module_ = None

\* the two clear computations on one row
FloatClass(row) == ArgMax(ForwardFloat(delegate.weights, row))
QuantizedClearClass(m, row) == ArgMax(Forward(m.weights, QuantizeRow(m.params, row)))

\* C16: a predict() in the clear is computed by the clear quantized computation of
\* the module when one is held, never by the circuit, and by the floating point
\* network when none is held; while fit() trains, traces and quantizes, inference
\* runs the floating point network.
C16_ClearPathByLifecycle ==
    /\ (ClearPredictDone /\ call.status = "ok") =>
          /\ ~Ran(calls)
          /\ \A i \in DOMAIN call.y_pred :
                call.y_pred[i] =
                    IF call.pre_mod # None
                    THEN QuantizedClearClass(call.pre_mod, reshape(call.X)[i])
                    ELSE FloatClass(reshape(call.X)[i])
    /\ FitWindow => \A row \in Row : infer(row) = FloatClass(row)

C16_Witness ==
    /\ ClearPredictDone /\ call.status = "ok"
    /\ PreState = "Compiled"
    /\ call.y_pred[1] # FloatClass(reshape(call.X)[1])

Count(log, fn) == Cardinality({i \in DOMAIN log : log[i].fn = fn})

\* C17: one fit() calls the trainer, the tracer and the quantizer at most once
\* each, one compile() calls the compiler at most once, and a successful encrypted
\* predict() on N rows runs the circuit N times, once for each row.
C17_NoRetry ==
    /\ call.op \in {"fit", "fit_benchmark"} =>
          /\ Count(calls, "super_fit") <= 1
          /\ Count(calls, "NumpyModule") <= 1
          /\ Count(calls, "quantize_module") <= 1
    /\ call.op = "compile" => Count(calls, "module_compile") <= 1
    /\ (EncryptedPredictDone /\ call.status = "ok") =>
          /\ Count(calls, "run") = Len(reshape(call.X))
          /\ \A r \in DOMAIN reshape(call.X) :
                Cardinality({i \in DOMAIN calls :
                                calls[i].fn = "run" /\ calls[i].row = r}) = 1

C17_Witness ==
    /\ EncryptedPredictDone /\ call.status = "ok"
    /\ Len(reshape(call.X)) = MaxRows
    /\ Count(calls, "run") = MaxRows

\* C18: after a predict(), in either mode and whatever its outcome, the adapter
\* holds the module, the stored input set and the circuit it held before.
C18_PredictKeepsState ==
    (pc = "idle" /\ call.op = "predict") =>
        /\ quantized_module_ = call.pre_mod
        /\ q_inputs0(quantized_module_) = call.pre_arr
        /\ State = PreState

C18_Witness ==
    /\ EncryptedPredictDone
    /\ call.status = "NotCompiled"
    /\ quantized_module_ = call.pre_mod
    /\ State = "Calibrated"

\* C19: a successful encrypted predict() on a 1-D input runs the circuit once and
\* returns one class, the one the same row gives as the only row of a 2-D batch.
C19_SingleRowIsBatchOfOne ==
    (EncryptedPredictDone /\ call.status = "ok" /\ call.X.ndim = 1) =>
        /\ Len(call.y_pred) = 1
        /\ Count(calls, "run") = 1
        /\ call.y_pred = predict([ndim |-> 2, v |-> <<call.X.v>>], TRUE).y_pred
        /\ call.y_pred[1] = ArgMax(run(quantized_module_.forward_fhe,
                                       quantize_input(quantized_module_, call.X.v)))

C19_Witness ==
    /\ EncryptedPredictDone /\ call.status = "ok" /\ call.X.ndim = 1
    /\ call.y_pred = <<1>>

====
